---- MODULE Spec2Model ----
(***************************************************************************)
(* A model of the GS-App tools portal: the Microsoft Graph login glue      *)
(* (ms_graph.py), the page gates (app.py, IR_gen.py, the pages directory),  *)
(* the Generate Report submission against SharePoint (IR_gen.py,           *)
(* sp_folder_graph.py), normalize_serial, the satellite tracker's live     *)
(* timer (sat_tracker.py), the SC converter (fetch_convert.py:             *)
(* parse_command_line, convert_log), kp_to_color (geomag.py) and the       *)
(* paragraphs generate_docx fills (IR_gen.py).                             *)
(*                                                                         *)
(* A Streamlit script run is one action: the whole page script runs from   *)
(* top to bottom (or to st.stop / st.rerun / an uncaught exception) for    *)
(* one session.  Answers of the external services (Azure AD, Microsoft     *)
(* Graph) are inputs of the run, drawn from small sets.                    *)
(***************************************************************************)
EXTENDS Integers, Sequences, FiniteSets, TLC

VARIABLES
    session_state,   \* ms_graph.py: st.session_state of each session
    query_params,    \* ms_graph.py: st.query_params of each session
    flow_store,      \* ms_graph.py: the dict _flow_store() returns, one per process
    now,             \* int(time.time())
    run,             \* the transcript of the script run just executed
    drive,           \* sp_folder_graph.py: the SharePoint drive below the reports root
    sub,             \* IR_gen.py: the transcript of the Generate Report submission just made
    serial_raw,      \* IR_gen.py: the "Incident serial" text input
    serial,          \* IR_gen.py: serial = normalize_serial(serial_raw)
    tle_store,       \* sat_tracker.py: MainWindow.tle_store (its NORAD ids)
    list_selected,   \* sat_tracker.py: the selected items of MainWindow.list_widget
    selected_norads, \* sat_tracker.py: MainWindow.selected_norads
    web_loaded,      \* sat_tracker.py: MainWindow.web_loaded
    load_pending,    \* sat_tracker.py: web.setHtml was called, loadFinished not yet emitted
    live_cb,         \* sat_tracker.py: the "Live update" check box
    live_timer,      \* sat_tracker.py: MainWindow.live_timer is active
    event,           \* sat_tracker.py: the handler just executed and what initiated it
    cmd_pieces,      \* fetch_convert.py: the pieces pasted into the one line of the text box
    parsed,          \* fetch_convert.py: parse_command_line(line) of that line
    text_box,        \* fetch_convert.py: the lines of the log in SheetColumnFetcherApp.text_box
    sc_phase,        \* fetch_convert.py: "idle", convert_log "running", result shown ("done")
    lineno,          \* fetch_convert.py: convert_log's lineno, the lines taken so far
    upload_dt,       \* fetch_convert.py: convert_log's upload_dt
    last_wait,       \* fetch_convert.py: convert_log's last_wait
    warnings,        \* fetch_convert.py: convert_log's warnings
    output_lines,    \* fetch_convert.py: convert_log's output_lines
    console_output,  \* fetch_convert.py: convert_log's console_output, line by line
    kps,             \* geomag.py: fetch_and_plot's kps, a value per time stamp
    bar_colors,      \* geomag.py: fetch_and_plot's bar_colors
    form,            \* IR_gen.py: the section texts and photo counts of the form (data)
    docx_paragraphs  \* IR_gen.py: the paragraphs of the document generate_docx made

authVars == <<session_state, query_params, flow_store, now, run>>
submitVars == <<drive, sub>>
serialVars == <<serial_raw, serial>>
trackerVars == <<tle_store, list_selected, selected_norads, web_loaded, load_pending, live_cb,
                 live_timer, event>>

parseVars == <<cmd_pieces, parsed>>
convVars == <<text_box, sc_phase, lineno, upload_dt, last_wait, warnings, output_lines,
              console_output>>
kpVars == <<kps, bar_colors>>
docxVars == <<form, docx_paragraphs>>
toolVars == <<parseVars, convVars, kpVars, docxVars>>

vars == <<authVars, submitVars, serialVars, trackerVars, toolVars>>

----------------------------------------------------------------------------
(* Bounds *)

\* how many login flows the process may start (states 1..MaxFlows)
MaxFlows == 2
\* how many times the clock advances
MaxTicks == 2

----------------------------------------------------------------------------
(* ms_graph.py *)

Sessions == {"s1", "s2"}

DEFAULT_SCOPES_READONLY == "User.Read Sites.Read.All"
DEFAULT_SCOPES_WRITE == "User.Read Sites.ReadWrite.All"

\* cfg["redirect_uri"] of the deployment
RedirectUri == "https://portal/redirect"

\* the literal of `int(expires_at) - int(time.time()) < 120`
ReloginMargin == 120

\* the `state` values secrets.token_urlsafe draws; 0 stands for "no state"
States == 1..MaxFlows

\* a session without "ms_token" / "ms_scopes"
NoToken == [access_token |-> "", expires_in |-> 0, expires_at |-> 0]
NoScopes == ""
EmptySession == [ms_token |-> NoToken, ms_scopes |-> NoScopes]

\* st.query_params after clear()
NoParams == [code |-> "", state |-> 0, ms_state |-> 0]

\* the expires_in values Azure AD may answer with
ExpiresIn == {60, 180}

\* a result dict of MSAL that contains "access_token" (it carries no expires_at)
TokenResult(ei) == [access_token |-> "AT", expires_in |-> ei, expires_at |-> 0]

\* what app.acquire_token_by_auth_code_flow may do
FlowOutcomes == {"token", "error", "empty", "ValueError", "Exception"}
\* what app.acquire_token_by_authorization_code may do
DirectOutcomes == {"token", "error", "Exception"}

\* _reset_login_state: pops ms_token and ms_scopes, and clears the URL
ResetLoginState(ss, qp, clear_url) ==
    [ss |-> EmptySession, qp |-> IF clear_url THEN NoParams ELSE qp]

\* _start_flow: a fresh state, the flow kept in _flow_store, ms_state in the URL
StartFlow(fs, qp, scopes, fresh) ==
    [fs |-> [st \in (DOMAIN fs) \cup {fresh} |->
                IF st = fresh
                THEN [state |-> fresh, scopes |-> scopes, redirect_uri |-> RedirectUri]
                ELSE fs[st]],
     qp |-> [qp EXCEPT !.ms_state = fresh]]

\* the fallback of login_ui: acquire_token_by_authorization_code(code, scopes, redirect_uri)
DirectCall(code, scopes_to_use) ==
    [api |-> "acquire_token_by_authorization_code", code |-> code,
     scopes |-> scopes_to_use, redirect_uri |-> RedirectUri]

FlowCall(flow, code) ==
    [api |-> "acquire_token_by_auth_code_flow", code |-> code,
     scopes |-> flow.scopes, redirect_uri |-> flow.redirect_uri]

\* `if not result:` after the flow redemption: None after ValueError, {} is falsy
\* variant: the fallback taken only when no flow is cached
NeedsFallbackOnlyWithoutFlow(flowFound, fo) == ~flowFound

\* variant: the fallback taken after any flow redemption without a token
NeedsFallbackOnAnyFailure(flowFound, fo) == ~flowFound \/ fo # "token"

NeedsFallback(flowFound, fo) ==
    ~flowFound \/ fo \in {"ValueError", "empty"}

\* login_ui.  fo, do, ei: what the two MSAL calls answer; fresh: the state
\* _start_flow draws.  The result: the session, URL and flow store after the
\* call, the redemption calls made in order with their outcomes, what was
\* rendered, and how the call ended ("return", "rerun", "exception").
login_ui(ss0, qp, fs, scopes, fo, do, ei, fresh) ==
    LET ss == [ss0 EXCEPT !.ms_scopes = scopes]
        base == [ss |-> ss, qp |-> qp, fs |-> fs, calls |-> <<>>, outcomes |-> <<>>,
                 callback |-> FALSE, flowFound |-> FALSE,
                 shown |-> {}, ended |-> "return"]
    IN
    IF ss.ms_token # NoToken
    THEN base                                      \* already logged in
    ELSE IF qp.code # ""
    THEN                                           \* callback
        LET state == IF qp.state # 0 THEN qp.state ELSE qp.ms_state
            flowFound == state # 0 /\ state \in DOMAIN fs
            scopes_to_use == IF ss.ms_scopes # NoScopes THEN ss.ms_scopes ELSE scopes
            c1 == IF flowFound THEN <<FlowCall(fs[state], qp.code)>> ELSE <<>>
            o1 == IF flowFound THEN <<fo>> ELSE <<>>
            cb == [base EXCEPT !.callback = TRUE, !.flowFound = flowFound]
        IN
        IF flowFound /\ fo = "Exception"
        THEN [cb EXCEPT !.calls = c1, !.outcomes = o1, !.ended = "exception"]
        ELSE
        LET fallback == NeedsFallback(flowFound, fo)
            calls == IF fallback THEN Append(c1, DirectCall(qp.code, scopes_to_use)) ELSE c1
            outcomes == IF fallback THEN Append(o1, do) ELSE o1
            result == IF fallback THEN do ELSE fo
            cc == [cb EXCEPT !.calls = calls, !.outcomes = outcomes]
        IN
        IF result = "token"
        THEN [cc EXCEPT !.ss = [ss EXCEPT !.ms_token = TokenResult(ei)],
                        !.qp = NoParams, !.ended = "rerun"]
        ELSE [cc EXCEPT !.shown = {"error"}]       \* "Login failed ..."; return
    ELSE                                           \* not a callback: Sign In
        LET sf == StartFlow(fs, qp, scopes, fresh)
        IN [base EXCEPT !.fs = sf.fs, !.qp = sf.qp, !.shown = {"Sign In"}]

\* variant: the expiry never looked at
ExpiringSoonNever(expires_at, t) == FALSE

\* `int(expires_at) - int(time.time()) < 120`
ExpiringSoon(expires_at, t) == expires_at - t < ReloginMargin

\* get_access_token at time t.  ret is the access token returned ("" for None);
\* had: the session held a token; relogin: the token was dropped and st.rerun() called.
get_access_token(ss, qp, t) ==
    LET token == ss.ms_token IN
    IF token = NoToken
    THEN [ss |-> ss, qp |-> qp, called |-> TRUE, had |-> FALSE, relogin |-> FALSE,
          ret |-> "", expires_at |-> 0, ended |-> "return"]
    ELSE
    LET expires_at == IF token.expires_at = 0 THEN t + token.expires_in
                      ELSE token.expires_at
        ss1 == [ss EXCEPT !.ms_token.expires_at = expires_at]
    IN
    IF ExpiringSoon(expires_at, t)
    THEN LET r == ResetLoginState(ss1, qp, TRUE)
         IN [ss |-> r.ss, qp |-> r.qp, called |-> TRUE, had |-> TRUE, relogin |-> TRUE,
             ret |-> "", expires_at |-> expires_at, ended |-> "rerun"]
    ELSE [ss |-> ss1, qp |-> qp, called |-> TRUE, had |-> TRUE, relogin |-> FALSE,
          ret |-> token.access_token, expires_at |-> expires_at, ended |-> "return"]

NotCalled == [ss |-> 0, qp |-> 0, called |-> FALSE, had |-> FALSE, relogin |-> FALSE,
              ret |-> "", expires_at |-> 0, ended |-> "return"]

----------------------------------------------------------------------------
(* The pages *)

\* IR_gen.py is also what pages/1_Incident_Report_Generator.py runs (runpy)
GatedPages == {"app.py", "IR_gen.py"}
OpenPages == {"pages/2_DGS_Fault_Track_Mapper.py", "pages/3_SC_Converter_Submit.py"}
Pages == GatedPages \cup OpenPages

\* the transcript when the last step was no script run
NoRun(kind, s) ==
    [kind |-> kind, session |-> s, page |-> "", at |-> 0,
     callback |-> FALSE, flowFound |-> FALSE, scopes |-> NoScopes,
     calls |-> <<>>, outcomes |-> <<>>,
     gat |-> NotCalled, shown |-> {}, ended |-> ""]

\* variant: the login state kept once for the whole process
StoreSessionForAll(all, s, ss) == [t \in DOMAIN all |-> ss]

\* st.session_state[...] = ...: a write to the session state of the running session
StoreSession(all, s, ss) == [all EXCEPT ![s] = ss]

\* app.py and IR_gen.py: title; login_ui; get_access_token; st.stop() without a
\* token; then the Logout button (app.py; pressed: logout(), rerun) and the
\* page body.  click: the Logout button of app.py was pressed.
GatedRun(s, page, fo, do, ei, fresh, click) ==
    \E li \in {login_ui(session_state[s], query_params[s], flow_store,
                        DEFAULT_SCOPES_WRITE, fo, do, ei, fresh)} :
    \E ga \in {IF li.ended = "return" THEN get_access_token(li.ss, li.qp, now)
               ELSE [NotCalled EXCEPT !.ss = li.ss, !.qp = li.qp, !.ended = li.ended]} :
    LET passed == ga.ended = "return" /\ ga.ret # ""
        logout == passed /\ page = "app.py" /\ click
        out == IF logout THEN ResetLoginState(ga.ss, ga.qp, TRUE)
               ELSE [ss |-> ga.ss, qp |-> ga.qp]
    IN
    /\ session_state' = StoreSession(session_state, s, out.ss)
    /\ query_params' = [query_params EXCEPT ![s] = out.qp]
    /\ flow_store' = li.fs
    /\ run' = [kind |-> "run", session |-> s, page |-> page, at |-> now,
               callback |-> li.callback, flowFound |-> li.flowFound,
               scopes |-> li.ss.ms_scopes,
               calls |-> li.calls, outcomes |-> li.outcomes,
               gat |-> [ga EXCEPT !.ss = 0, !.qp = 0],
               shown |-> {"title"} \cup li.shown
                         \cup (IF passed /\ page = "app.py" THEN {"Logout"} ELSE {})
                         \cup (IF passed /\ ~logout THEN {"body"} ELSE {}),
               ended |-> IF ga.ended # "return" THEN ga.ended
                         ELSE IF ~passed THEN "stop"
                         ELSE IF logout THEN "rerun" ELSE "done"]

\* pages/2_DGS_Fault_Track_Mapper.py, pages/3_SC_Converter_Submit.py: title and body
OpenRun(s, page) ==
    /\ run' = [NoRun("run", s) EXCEPT !.page = page, !.at = now,
                                      !.shown = {"title", "body"}, !.ended = "done"]
    /\ UNCHANGED <<session_state, query_params, flow_store>>

\* the answers a run of a gated page can depend on: the Logout click when the
\* session is logged in, the MSAL answers in a callback, the fresh state otherwise
RunInputs(ss, qp, fs) ==
    LET dflt == [fo |-> "token", do |-> "token", ei |-> 60, fresh |-> 1, click |-> FALSE]
    IN
    IF ss.ms_token # NoToken
    THEN {[dflt EXCEPT !.click = c] : c \in BOOLEAN}
    ELSE IF qp.code # ""
    THEN {[dflt EXCEPT !.fo = fo, !.do = do, !.ei = ei] :
            fo \in FlowOutcomes, do \in DirectOutcomes, ei \in ExpiresIn}
    ELSE {[dflt EXCEPT !.fresh = f] : f \in States \ DOMAIN fs}

\* one script run of a gated page in session s
RunGated ==
    \E s \in Sessions, page \in GatedPages :
        \E inp \in RunInputs(session_state[s], query_params[s], flow_store) :
            /\ GatedRun(s, page, inp.fo, inp.do, inp.ei, inp.fresh, inp.click)
            /\ UNCHANGED <<now, submitVars, serialVars, toolVars, trackerVars>>

\* one script run of a page without a gate in session s
RunOpen ==
    \E s \in Sessions, page \in OpenPages :
        /\ OpenRun(s, page)
        /\ UNCHANGED <<now, submitVars, serialVars, toolVars, trackerVars>>

\* Azure AD redirects the browser of s back to the portal with ?code=...&state=...:
\* the page is loaded anew, so Streamlit starts s over with an empty session_state
Redirect ==
    \E s \in Sessions, st \in 0..MaxFlows :
        /\ session_state' = [session_state EXCEPT ![s] = EmptySession]
        /\ query_params' = [query_params EXCEPT ![s] =
                               [code |-> "c1", state |-> st, ms_state |-> 0]]
        /\ run' = NoRun("redirect", s)
        /\ UNCHANGED <<flow_store, now, submitVars, serialVars, toolVars, trackerVars>>

\* a minute passes
Tick ==
    /\ now < MaxTicks * 60
    /\ now' = now + 60
    /\ run' = NoRun("tick", "")
    /\ UNCHANGED <<session_state, query_params, flow_store, submitVars, serialVars, toolVars,
                   trackerVars>>

\* the portal after start-up, nobody signed in
InitAuth ==
    /\ session_state = [s \in Sessions |-> EmptySession]
    /\ query_params = [s \in Sessions |-> NoParams]
    /\ flow_store = <<>>
    /\ now = 0
    /\ run = NoRun("init", "")

NextAuth == RunGated \/ RunOpen \/ Redirect \/ Tick

----------------------------------------------------------------------------
(* IR_gen.py: normalize_serial.  A string is a sequence of characters. *)

\* the longest text typed into the "Incident serial" input
MaxLen == 5

\* the characters typed: two digits, a blank and a letter
Chars == {"0", "7", " ", "x"}

\* what \d matches among the characters typed
Digits == {"0", "1", "2", "3", "4", "5", "6", "7", "8", "9"}

RECURSIVE lstrip(_)
lstrip(s) == IF s # <<>> /\ Head(s) = " " THEN lstrip(Tail(s)) ELSE s

RECURSIVE rstrip(_)
rstrip(s) == IF s # <<>> /\ s[Len(s)] = " " THEN rstrip(SubSeq(s, 1, Len(s) - 1)) ELSE s

\* str.strip()
strip(s) == rstrip(lstrip(s))

\* variant: \d{1,5}
FullMatchUpToFiveDigits(s) == Len(s) \in 1..5 /\ \A i \in 1..Len(s) : s[i] \in Digits

\* re.fullmatch(r"\d{1,4}", s)
FullMatchDigits(s) == Len(s) \in 1..4 /\ \A i \in 1..Len(s) : s[i] \in Digits

\* str.zfill(width) of a string of digits
RECURSIVE zfill(_, _)
zfill(s, width) == IF Len(s) >= width THEN s ELSE zfill(<<"0">> \o s, width)

normalize_serial(raw) ==
    LET s == strip(raw) IN
    IF s = <<>> THEN <<>>
    ELSE IF ~FullMatchDigits(s) THEN <<>>
    ELSE zfill(s, 4)

\* the user types a character into the serial input; the script reruns and
\* computes serial = normalize_serial(serial_raw)
TypeSerial ==
    \E c \in Chars :
        /\ Len(serial_raw) < MaxLen
        /\ serial_raw' = Append(serial_raw, c)
        /\ serial' = normalize_serial(serial_raw')
        /\ UNCHANGED <<authVars, submitVars, trackerVars, toolVars>>

\* the user deletes the last character
EraseSerial ==
    /\ serial_raw # <<>>
    /\ serial_raw' = SubSeq(serial_raw, 1, Len(serial_raw) - 1)
    /\ serial' = normalize_serial(serial_raw')
    /\ UNCHANGED <<authVars, submitVars, trackerVars, toolVars>>

\* the empty text input
InitSerial ==
    /\ serial_raw = <<>>
    /\ serial = normalize_serial(<<>>)

NextSerial == TypeSerial \/ EraseSerial

----------------------------------------------------------------------------
(* sp_folder_graph.py and the Generate Report submission of IR_gen.py.      *)
(* A folder or file of the drive is its path below                         *)
(* INCIDENT_REPORTS_ROOT_PATH, a sequence of names; the root always exists. *)

CITY_CODES == [c \in {"Davao City", "Quezon City"} |->
                 IF c = "Davao City" THEN "DVO" ELSE "QZN"]

\* the "Year folder" chosen
Years == {"2026"}

\* the serials submitted: empty, two spellings of 0001, invalid
SubmitSerials == {<<>>, <<"1">>, <<"0", "0", "0", "1">>, <<"1", "x">>}

\* "Reported by", which tells one generated document from another
Reporters == {"A", "B"}

EmptyDrive == [folders |-> {}, files |-> <<>>]

\* f"SMCOD-IR-GS-{site_code}-{year}-{serial}" if serial else ""
FullIncidentNo(site_code, year, ser) ==
    IF ser # <<>> THEN <<"SMCOD-IR-GS", site_code, year, ser>> ELSE <<>>

\* f"{full_incident_no}.docx"
DocxName(no) == <<no, ".docx">>

\* list_ir_folders_in_city: get_item_by_path raises (404) without the city
\* folder; else the names of the folders in it
list_ir_folders_in_city(d, year, city) ==
    IF <<year, city>> \notin d.folders
    THEN [ok |-> FALSE, names |-> {}]
    ELSE [ok |-> TRUE,
          names |-> {p[3] : p \in {q \in d.folders : Len(q) = 3 /\ q[1] = year /\ q[2] = city}}]

\* check_duplicate_ir: "raise", or whether full_ir_no is among the folders.
\* fails: a Graph request of the listing fails
check_duplicate_ir(d, year, city, full_ir_no, fails) ==
    LET l == list_ir_folders_in_city(d, year, city) IN
    IF fails \/ ~l.ok THEN "raise"
    ELSE IF full_ir_no \in l.names THEN "duplicate" ELSE "new"

\* variant: the folder reported without being created
EnsureFolderWithoutCreating(d, parent, name, fails) ==
    [ok |-> ~fails, drive |-> d, item |-> Append(parent, name)]

\* ensure_folder: the child folder of that name, created when missing
ensure_folder(d, parent, name, fails) ==
    IF fails THEN [ok |-> FALSE, drive |-> d, item |-> parent]
    ELSE IF Append(parent, name) \in d.folders
    THEN [ok |-> TRUE, drive |-> d, item |-> Append(parent, name)]
    ELSE [ok |-> TRUE,
          drive |-> [d EXCEPT !.folders = @ \cup {Append(parent, name)}],
          item |-> Append(parent, name)]

\* the loop of ensure_path from part k on; failAt = k + 1: ensure_folder of
\* part k raises
RECURSIVE EnsureFrom(_, _, _, _, _)
EnsureFrom(d, cur, parts, k, failAt) ==
    IF k > Len(parts) THEN [ok |-> TRUE, drive |-> d, item |-> cur]
    ELSE LET r == ensure_folder(d, cur, parts[k], failAt = k + 1) IN
         IF ~r.ok THEN r
         ELSE EnsureFrom(r.drive, r.item, parts, k + 1, failAt)

\* ensure_path; failAt = 0: no request fails, 1: get_item_by_path of the root raises
ensure_path(d, parts, failAt) ==
    IF failAt = 1 THEN [ok |-> FALSE, drive |-> d, item |-> <<>>]
    ELSE EnsureFrom(d, <<>>, parts, 1, failAt)

\* upload_file_to_folder: PUT .../items/{folder}:/{filename}:/content creates
\* the file or replaces its content
upload_file_to_folder(d, folder, filename, content, fails) ==
    IF fails THEN [ok |-> FALSE, drive |-> d]
    ELSE [ok |-> TRUE,
          drive |-> [d EXCEPT !.files = (Append(folder, filename) :> content) @@ @]]

\* generate_docx(data): the document, told apart by what the form held
generate_docx(full_incident_no, reported_by) ==
    [full_incident_no |-> full_incident_no, reported_by |-> reported_by]

\* `except Exception` around the duplicate check: a warning, and the
\* submission goes on
\* variant: the submission stopped when the duplicate check raises
AfterDuplicateCheckRaisedStop == "stop"

AfterDuplicateCheckRaised == "continue"

Step(op, ok) == [op |-> op, ok |-> ok]

MsgSerial == "error: Enter a valid incident serial (numbers only up to 4 digits)."
MsgDuplicate == "error: Duplicate found: this Incident No folder already exists."
MsgCheckFailed == "warning: Duplicate check failed (continuing)"
MsgSuccess == "success: Report generated, folder created, and DOCX uploaded."
MsgUploadFailed == "error: Upload failed"

\* the `if submit:` block of IR_gen.py.  st.stop() raises StopException, a
\* BaseException, which the `except Exception` around the duplicate check
\* does not catch: "Duplicate found" ends the run.  plan: which requests fail
\* (check, gen: BOOLEAN; ensure: 0..4 as for ensure_path; upload: BOOLEAN).
\* The result: the drive afterwards, the steps executed in order, the
\* messages shown, and how the run ended.
generate_report(d, year, city, raw, reported_by, plan) ==
    LET ser == normalize_serial(raw)
        no == FullIncidentNo(CITY_CODES[city], year, ser)
        base == [drive |-> d, full_incident_no |-> no, steps |-> <<>>,
                 messages |-> <<>>, ended |-> "done"]
    IN
    IF ser = <<>>
    THEN [base EXCEPT !.messages = <<MsgSerial>>, !.ended = "stop"]
    ELSE
    LET dup == check_duplicate_ir(d, year, city, no, plan.check) IN
    IF dup = "duplicate"
    THEN [base EXCEPT !.steps = <<Step("check_duplicate_ir", TRUE)>>,
                      !.messages = <<MsgDuplicate>>, !.ended = "stop"]
    ELSE IF dup = "raise" /\ AfterDuplicateCheckRaised = "stop"
    THEN [base EXCEPT !.steps = <<Step("check_duplicate_ir", FALSE)>>,
                      !.messages = <<MsgCheckFailed>>, !.ended = "stop"]
    ELSE
    LET s1 == <<Step("check_duplicate_ir", dup # "raise")>>
        m1 == IF dup = "raise" THEN <<MsgCheckFailed>> ELSE <<>>
    IN
    IF plan.gen
    THEN [base EXCEPT !.steps = Append(s1, Step("generate_docx", FALSE)),
                      !.messages = m1, !.ended = "exception"]
    ELSE
    LET docx == generate_docx(no, reported_by)
        s2 == Append(s1, Step("generate_docx", TRUE))
        ep == ensure_path(d, <<year, city, no>>, plan.ensure)
    IN
    IF ~ep.ok
    THEN [base EXCEPT !.drive = ep.drive,
                      !.steps = s2 \o <<Step("ensure_path", FALSE),
                                        Step("download_button", TRUE)>>,
                      !.messages = Append(m1, MsgUploadFailed)]
    ELSE
    LET up == upload_file_to_folder(ep.drive, ep.item, DocxName(no), docx, plan.upload)
        s3 == s2 \o <<Step("ensure_path", TRUE), Step("upload_file_to_folder", up.ok),
                      Step("download_button", TRUE)>>
    IN [base EXCEPT !.drive = up.drive, !.steps = s3,
                    !.messages = Append(m1, IF up.ok THEN MsgSuccess ELSE MsgUploadFailed)]

NoPlan == [check |-> FALSE, gen |-> FALSE, ensure |-> 0, upload |-> FALSE]

\* the failures a submission can meet
Plans ==
    LET later == {[NoPlan EXCEPT !.gen = TRUE]}
                 \cup {[NoPlan EXCEPT !.ensure = k] : k \in 0..4}
                 \cup {[NoPlan EXCEPT !.upload = TRUE]}
    IN {[p EXCEPT !.check = c] : p \in later, c \in BOOLEAN}

\* the transcript when no submission was made yet
NoSubmit ==
    [kind |-> "init", year |-> "", city |-> "", serial_raw |-> <<>>, reported_by |-> "",
     full_incident_no |-> <<>>, steps |-> <<>>, messages |-> <<>>, ended |-> ""]

\* a signed-in user presses "Generate Report"
Submit ==
    \E year \in Years, city \in DOMAIN CITY_CODES, raw \in SubmitSerials,
       reported_by \in Reporters :
    \E plan \in (IF normalize_serial(raw) = <<>> THEN {NoPlan} ELSE Plans) :
    \E r \in {generate_report(drive, year, city, raw, reported_by, plan)} :
        /\ drive' = r.drive
        /\ sub' = [kind |-> "submit", year |-> year, city |-> city, serial_raw |-> raw,
                   reported_by |-> reported_by, full_incident_no |-> r.full_incident_no,
                   steps |-> r.steps, messages |-> r.messages, ended |-> r.ended]
        /\ UNCHANGED <<authVars, serialVars, toolVars, trackerVars>>

\* the reports root with no year folder yet
InitSubmit ==
    /\ drive = EmptyDrive
    /\ sub = NoSubmit

NextSubmit == Submit

----------------------------------------------------------------------------
(* sat_tracker.py: MainWindow.  A handler runs when the user clicks, when   *)
(* the web view emits loadFinished, or when live_timer times out.           *)

\* SAT_IDS, two of its ids
SatIds == {"43619", "27424"}

\* the list widget shows the satellites of tle_store
ListItems == tle_store

Event(op, initiator, started, js) ==
    [op |-> op, initiator |-> initiator, started |-> started, js |-> js]

\* fetch_tles: fetch_all_tles returns every satellite or raises
fetch_tles ==
    \E ok \in BOOLEAN :
        /\ tle_store' = IF ok THEN SatIds ELSE tle_store
        /\ list_selected' = IF ok THEN SatIds ELSE list_selected
        /\ event' = Event("fetch_tles", "user", FALSE, 0)
        /\ UNCHANGED <<selected_norads, web_loaded, load_pending, live_cb, live_timer,
                       authVars, submitVars, serialVars, toolVars>>

\* the user changes the selection of the list widget
SelectSatellites ==
    \E sel \in SUBSET ListItems :
        /\ sel # list_selected
        /\ list_selected' = sel
        /\ event' = Event("select", "user", FALSE, 0)
        /\ UNCHANGED <<tle_store, selected_norads, web_loaded, load_pending, live_cb,
                       live_timer, authVars, submitVars, serialVars, toolVars>>

\* the user ticks or unticks "Live update (moving)"
ToggleLive ==
    /\ live_cb' = ~live_cb
    /\ event' = Event("toggle_live", "user", FALSE, 0)
    /\ UNCHANGED <<tle_store, list_selected, selected_norads, web_loaded, load_pending,
                   live_timer, authVars, submitVars, serialVars, toolVars>>

\* render_selected: nothing without a selection or without TLEs; else the
\* selection is taken over, web_loaded is reset and the page is built and
\* handed to the web view (fails: building the page raises)
render_selected ==
    \E fails \in BOOLEAN :
        /\ IF list_selected = {} \/ tle_store = {}
           THEN UNCHANGED <<selected_norads, web_loaded, load_pending>>
           ELSE /\ selected_norads' = list_selected \cap tle_store
                /\ web_loaded' = FALSE
                /\ load_pending' = IF fails THEN load_pending ELSE TRUE
        /\ event' = Event("render_selected", "user", FALSE, 0)
        /\ UNCHANGED <<tle_store, list_selected, live_cb, live_timer,
                       authVars, submitVars, serialVars, toolVars>>

\* variant: without the early return of a failed load
StartsLiveTimerWhenChecked(ok, checked) == checked

\* on_web_load_finished: `if not ok: return`, then live_timer.start when the
\* box is checked
StartsLiveTimer(ok, checked) == ok /\ checked

\* on_web_load_finished(ok), on the web view's loadFinished signal
on_web_load_finished ==
    \E ok \in BOOLEAN :
        /\ load_pending
        /\ load_pending' = FALSE
        /\ web_loaded' = ok
        /\ live_timer' = IF StartsLiveTimer(ok, live_cb) THEN TRUE
                         ELSE IF ok THEN FALSE ELSE live_timer
        /\ event' = Event("on_web_load_finished", "webengine",
                          StartsLiveTimer(ok, live_cb), IF ok THEN 1 ELSE 0)
        /\ UNCHANGED <<tle_store, list_selected, selected_norads, live_cb,
                       authVars, submitVars, serialVars, toolVars>>

\* live_tick, on live_timer's timeout: nothing unless the page is loaded and
\* satellites are selected; else one updateSatellite call per satellite.
\* sent: the calls made; fewer than the satellites when an exception ends the
\* loop, which stops the timer
live_tick ==
    \E sent \in 0..Cardinality(selected_norads) :
        /\ live_timer
        /\ IF ~web_loaded \/ selected_norads = {}
           THEN /\ event' = Event("live_tick", "timer", FALSE, 0)
                /\ UNCHANGED live_timer
           ELSE /\ event' = Event("live_tick", "timer", FALSE, sent)
                /\ live_timer' = (sent = Cardinality(selected_norads))
        /\ UNCHANGED <<tle_store, list_selected, selected_norads, web_loaded,
                       load_pending, live_cb, authVars, submitVars, serialVars, toolVars>>

\* MainWindow.__init__
InitTracker ==
    /\ tle_store = {}
    /\ list_selected = {}
    /\ selected_norads = {}
    /\ web_loaded = FALSE
    /\ load_pending = FALSE
    /\ live_cb = TRUE
    /\ live_timer = FALSE
    /\ event = Event("__init__", "user", FALSE, 0)

NextTracker ==
    fetch_tles \/ SelectSatellites \/ ToggleLive \/ render_selected
    \/ on_web_load_finished \/ live_tick

----------------------------------------------------------------------------
(* fetch_convert.py: parse_command_line.  A line is a sequence of           *)
(* characters; the text box holds the pieces pasted into one line.          *)

\* how many pieces are pasted into the line
MaxPieces == 6

\* the pieces pasted: the 0x marker in both cases, hex digits, a blank, a
\* descriptor token and a wait token
LinePieces ==
    {<<"0", "x">>, <<"0", "X">>, <<"3", "e">>, <<"f">>, <<" ">>,
     <<"#", "C", "M">>,
     <<"#", "S", "C", "_", "W", "A", "I", "T", "_", "A", "=", "5">>}

\* what [0-9A-Fa-f] matches
HexDigits == Digits \cup {"A", "B", "C", "D", "E", "F", "a", "b", "c", "d", "e", "f"}

\* what \s matches among the characters of a log line
Whitespace == {" ", "\t"}

\* "".join(pieces)
RECURSIVE Flatten(_)
Flatten(pieces) == IF pieces = <<>> THEN <<>> ELSE Head(pieces) \o Flatten(Tail(pieces))

\* variant: the case of the hex digits kept as written
KeepCase(s) == s

\* str.upper() of a string of hex digits
upper(s) ==
    [i \in 1..Len(s) |->
        CASE s[i] = "a" -> "A" [] s[i] = "b" -> "B" [] s[i] = "c" -> "C"
          [] s[i] = "d" -> "D" [] s[i] = "e" -> "E" [] s[i] = "f" -> "F"
          [] OTHER -> s[i]]

\* the first index from k on whose character is not in set (Len(s) + 1 if none):
\* where a greedy set* that starts at k ends
RECURSIVE SkipWhile(_, _, _)
SkipWhile(s, k, set) ==
    IF k <= Len(s) /\ s[k] \in set THEN SkipWhile(s, k + 1, set) ELSE k

\* s[k:] of a 1-based sequence
From(s, k) == SubSeq(s, k, Len(s))

\* str.startswith
startswith(s, p) == Len(s) >= Len(p) /\ SubSeq(s, 1, Len(p)) = p

\* re.match(r'^\s*0[xX]([0-9A-Fa-f]{2})\s+([0-9A-Fa-f]{2,4})', line): every
\* quantifier is greedy and no two neighbouring parts share a character, so the
\* match is found without backtracking.  end: the index after the match.
CommandMatch(line) ==
    LET a == SkipWhile(line, 1, Whitespace)
        b == a + 4
        c == SkipWhile(line, b, Whitespace)
        h == SkipWhile(line, c, HexDigits)
        d == IF h > c + 4 THEN c + 4 ELSE h
        nomatch == [matched |-> FALSE, group1 |-> <<>>, group2 |-> <<>>, end |-> 1]
    IN
    IF /\ a + 3 <= Len(line)
       /\ line[a] = "0"
       /\ line[a + 1] \in {"x", "X"}
       /\ line[a + 2] \in HexDigits
       /\ line[a + 3] \in HexDigits
       /\ c > b
       /\ d - c >= 2
    THEN [matched |-> TRUE, group1 |-> SubSeq(line, a + 2, a + 3),
          group2 |-> SubSeq(line, c, d - 1), end |-> d]
    ELSE nomatch

\* re.findall(r'#([^ \t#]+)', s) from index k on
RECURSIVE FindTokens(_, _)
FindTokens(s, k) ==
    IF k >= Len(s) THEN <<>>
    ELSE IF s[k] = "#" /\ s[k + 1] \notin {" ", "\t", "#"}
    THEN LET e == SkipWhile(s, k + 1, {s[i] : i \in 1..Len(s)} \ {" ", "\t", "#"})
         IN <<SubSeq(s, k + 1, e - 1)>> \o FindTokens(s, e)
    ELSE FindTokens(s, k + 1)

SC_WAIT_A == <<"S", "C", "_", "W", "A", "I", "T", "_", "A">>
SC_DATE == <<"S", "C", "_", "D", "A", "T", "E">>

\* the loop over the tokens: the first that starts with neither SC_WAIT_A nor
\* SC_DATE; <<>> for desc = None (a token is never empty)
RECURSIVE FirstDescriptor(_)
FirstDescriptor(tokens) ==
    IF tokens = <<>> THEN <<>>
    ELSE IF startswith(Head(tokens), SC_WAIT_A) \/ startswith(Head(tokens), SC_DATE)
    THEN FirstDescriptor(Tail(tokens))
    ELSE Head(tokens)

\* s.split(sep, 1)[0]: the text before the first occurrence of sep, all of s
\* without one
RECURSIVE BeforeFirst(_, _, _)
BeforeFirst(s, sep, k) ==
    IF k + Len(sep) - 1 > Len(s) THEN s
    ELSE IF SubSeq(s, k, k + Len(sep) - 1) = sep THEN SubSeq(s, 1, k - 1)
    ELSE BeforeFirst(s, sep, k + 1)

\* re.findall(r'([0-9A-Fa-f]{2})', s) from index k on: the pairs of hex
\* digits, found from left to right without overlap
RECURSIVE FindHexPairs(_, _)
FindHexPairs(s, k) ==
    IF k >= Len(s) THEN <<>>
    ELSE IF s[k] \in HexDigits /\ s[k + 1] \in HexDigits
    THEN <<SubSeq(s, k, k + 1)>> \o FindHexPairs(s, k + 2)
    ELSE FindHexPairs(s, k + 1)

\* ",".join(p.upper() for p in params)
RECURSIVE JoinParams(_)
JoinParams(params) ==
    IF params = <<>> THEN <<>>
    ELSE IF Len(params) = 1 THEN upper(Head(params))
    ELSE upper(Head(params)) \o <<",">> \o JoinParams(Tail(params))

\* the return value None
None == [none |-> TRUE, cmd_id |-> <<>>, descriptor |-> <<>>, params |-> <<>>]

\* parse_command_line(line): None, or the triple (cmd_id, descriptor, param_str)
parse_command_line(line) ==
    LET m == CommandMatch(line) IN
    IF ~m.matched THEN None
    ELSE
    LET cmd_id == upper(m.group1)
        code_str == upper(m.group2)
        rest == From(line, m.end)
        desc == FirstDescriptor(FindTokens(rest, 1))
    IN
    IF desc = <<>> THEN None
    ELSE
    LET prefix == IF Len(code_str) = 4
                  THEN <<"(">> \o SubSeq(code_str, 1, 2) \o <<")", "(">>
                       \o SubSeq(code_str, 3, 4) \o <<")">>
                  ELSE <<"(">> \o code_str \o <<")">>
        descriptor == prefix \o <<" ">> \o desc
        pre_desc == BeforeFirst(rest, <<"#">> \o desc, 1)
        params == FindHexPairs(pre_desc, 1)
    IN [none |-> FALSE, cmd_id |-> cmd_id, descriptor |-> descriptor,
        params |-> JoinParams(params)]

\* the line the text box holds
cmd_line == Flatten(cmd_pieces)

\* a piece is pasted at the end of the line, and the line is parsed
PastePiece ==
    \E p \in LinePieces :
        /\ Len(cmd_pieces) < MaxPieces
        /\ cmd_pieces' = Append(cmd_pieces, p)
        /\ parsed' = parse_command_line(Flatten(cmd_pieces'))
        /\ UNCHANGED <<authVars, submitVars, serialVars, trackerVars, convVars, kpVars,
                       docxVars>>

\* the text box is emptied
ClearLine ==
    /\ cmd_pieces # <<>>
    /\ cmd_pieces' = <<>>
    /\ parsed' = parse_command_line(<<>>)
    /\ UNCHANGED <<authVars, submitVars, serialVars, trackerVars, convVars, kpVars,
                   docxVars>>

\* the empty text box
InitParse ==
    /\ cmd_pieces = <<>>
    /\ parsed = parse_command_line(<<>>)

NextParse == PastePiece \/ ClearLine

----------------------------------------------------------------------------
(* fetch_convert.py: convert_log, run by the "Convert SC Commands" button.  *)
(* The text box holds the log, a sequence of lines; the loop of convert_log *)
(* takes one line per step.                                                 *)

\* how many lines the log has
MaxLines == 3

\* a wait alone: #SC_WAIT_A=5
LineWait ==
    <<"#", "S", "C", "_", "W", "A", "I", "T", "_", "A", "=", "5">>

\* a command with a parameter, lower-case hex, and its own wait:
\* 0x3e 0301 0a #SC_WAIT_A=7 #CM
LineCommandWait ==
    <<"0", "x", "3", "e", " ", "0", "3", "0", "1", " ", "0", "a", " ", "#",
      "S", "C", "_", "W", "A", "I", "T", "_", "A", "=", "7", " ", "#", "C",
      "M">>

\* a command without parameters, a tab after its descriptor: 0x3E 03 #C<tab>M
LineCommand ==
    <<"0", "x", "3", "E", " ", "0", "3", " ", "#", "C", "\t", "M">>

\* two waits in one line: #SC_WAIT_A=5 #SC_WAIT_A=7
LineTwoWaits ==
    <<"#", "S", "C", "_", "W", "A", "I", "T", "_", "A", "=", "5", " ", "#",
      "S", "C", "_", "W", "A", "I", "T", "_", "A", "=", "7">>

\* a date before the conversion: #SC_DATE=2020/01/02 03:04:05
LineDatePast ==
    <<"#", "S", "C", "_", "D", "A", "T", "E", "=", "2", "0", "2", "0", "/",
      "0", "1", "/", "0", "2", " ", "0", "3", ":", "0", "4", ":", "0", "5">>

\* a date the pattern matches and strptime rejects (month 13):
\* #SC_DATE=2020/13/02 03:04:05
LineDateInvalid ==
    <<"#", "S", "C", "_", "D", "A", "T", "E", "=", "2", "0", "2", "0", "/",
      "1", "3", "/", "0", "2", " ", "0", "3", ":", "0", "4", ":", "0", "5">>

\* a command that carries a date after the conversion:
\* 0x3E 03 #SC_DATE=2099/01/02 03:04:05 #CM
LineDateFuture ==
    <<"0", "x", "3", "E", " ", "0", "3", " ", "#", "S", "C", "_", "D", "A",
      "T", "E", "=", "2", "0", "9", "9", "/", "0", "1", "/", "0", "2", " ",
      "0", "3", ":", "0", "4", ":", "0", "5", " ", "#", "C", "M">>

\* neither a command nor a marker: note
LineNote ==
    <<"n", "o", "t", "e">>

LogLines ==
    {LineWait, LineCommandWait, LineCommand, LineTwoWaits, LineDatePast,
     LineDateInvalid, LineDateFuture, LineNote}

\* datetime.now() at the conversion, as (year, month, day, hour, minute,
\* second): one after every date of 2020, one equal to the date of
\* LineDatePast
UploadTimes == {<<2026, 11, 1, 0, 0, 0>>, <<2020, 1, 2, 3, 4, 5>>}

\* the literal parts of the two patterns and of the SC_TIME_SET row
WaitPrefix == <<"#", "S", "C", "_", "W", "A", "I", "T", "_", "A", "=">>
DatePrefix == <<"#", "S", "C", "_", "D", "A", "T", "E", "=">>
TimeSetId == <<"3", "E">>
TimeSetDescriptor ==
    <<"(", "0", "3", ")", "(", "0", "1", ")", " ", "S", "C", "_", "T", "I",
      "M", "E", "_", "S", "E", "T">>

\* last_wait = None
NoWait == <<>>

\* s[k:].startswith(p)
PrefixAt(s, k, p) == k + Len(p) - 1 <= Len(s) /\ SubSeq(s, k, k + Len(p) - 1) = p

\* wait_re.search(raw), r'#SC_WAIT_A=(\d+)': group(1) of the leftmost match
\* from k on, <<>> without a match
RECURSIVE WaitSearch(_, _)
WaitSearch(raw, k) ==
    LET g == k + Len(WaitPrefix) IN
    IF k > Len(raw) THEN <<>>
    ELSE IF PrefixAt(raw, k, WaitPrefix) /\ g <= Len(raw) /\ raw[g] \in Digits
    THEN SubSeq(raw, g, SkipWhile(raw, g, Digits) - 1)
    ELSE WaitSearch(raw, k + 1)

\* \d{4}/\d{2}/\d{2} \d{2}:\d{2}:\d{2}, "d" standing for \d
DatePattern ==
    <<"d", "d", "d", "d", "/", "d", "d", "/", "d", "d", " ",
      "d", "d", ":", "d", "d", ":", "d", "d">>

\* the pattern matches s from index k on
MatchesDate(s, k) ==
    /\ k + Len(DatePattern) - 1 <= Len(s)
    /\ \A i \in 1..Len(DatePattern) :
          IF DatePattern[i] = "d" THEN s[k + i - 1] \in Digits
          ELSE s[k + i - 1] = DatePattern[i]

\* sc_date_re.search(raw): group(1) of the leftmost match from k on, <<>>
\* without a match
RECURSIVE DateSearch(_, _)
DateSearch(raw, k) ==
    LET g == k + Len(DatePrefix) IN
    IF k > Len(raw) THEN <<>>
    ELSE IF PrefixAt(raw, k, DatePrefix) /\ MatchesDate(raw, g)
    THEN SubSeq(raw, g, g + Len(DatePattern) - 1)
    ELSE DateSearch(raw, k + 1)

DigitChars == <<"0", "1", "2", "3", "4", "5", "6", "7", "8", "9">>

\* int(c) of a digit
DigitValue(c) == (CHOOSE i \in 1..Len(DigitChars) : DigitChars[i] = c) - 1

\* int(s) of a string of digits
RECURSIVE IntOf(_)
IntOf(s) ==
    IF s = <<>> THEN 0
    ELSE 10 * IntOf(SubSeq(s, 1, Len(s) - 1)) + DigitValue(s[Len(s)])

\* the days of a month of the proleptic Gregorian calendar
DaysInMonth(year, month) ==
    IF month = 2
    THEN IF (year % 4 = 0 /\ year % 100 # 0) \/ year % 400 = 0 THEN 29 ELSE 28
    ELSE IF month \in {4, 6, 9, 11} THEN 30 ELSE 31

\* datetime.strptime(text, '%Y/%m/%d %H:%M:%S') of a text the pattern
\* matched: ok = FALSE for ValueError
strptime(text) ==
    LET year == IntOf(SubSeq(text, 1, 4))
        month == IntOf(SubSeq(text, 6, 7))
        day == IntOf(SubSeq(text, 9, 10))
        hour == IntOf(SubSeq(text, 12, 13))
        minute == IntOf(SubSeq(text, 15, 16))
        second == IntOf(SubSeq(text, 18, 19))
    IN [ok |-> /\ year >= 1
               /\ month \in 1..12
               /\ day \in 1..DaysInMonth(year, month)
               /\ hour \in 0..23
               /\ minute \in 0..59
               /\ second \in 0..59,
        dt |-> <<year, month, day, hour, minute, second>>]

\* a < b of two datetimes
RECURSIVE DateLess(_, _)
DateLess(a, b) ==
    IF a = <<>> THEN FALSE
    ELSE IF Head(a) # Head(b) THEN Head(a) < Head(b)
    ELSE DateLess(Tail(a), Tail(b))

HexChars ==
    <<"0", "1", "2", "3", "4", "5", "6", "7", "8", "9", "A", "B", "C", "D", "E", "F">>

\* f"{p:02X}" of p below 256
Hex2(p) == <<HexChars[(p \div 16) + 1], HexChars[(p % 16) + 1]>>

\* ",".join(f"{p:02X}" for p in parts)
RECURSIVE JoinHex(_)
JoinHex(parts) ==
    IF parts = <<>> THEN <<>>
    ELSE IF Len(parts) = 1 THEN Hex2(Head(parts))
    ELSE Hex2(Head(parts)) \o <<",">> \o JoinHex(Tail(parts))

\* f"{a}\t{b}\t{c}\t{d}"
Row(a, b, c, d) == a \o <<"\t">> \o b \o <<"\t">> \o c \o <<"\t">> \o d

\* a line of console_output: its wording and what is formatted into it
Entry(text, arg) == [text |-> text, arg |-> arg]

\* variant: the first wait of the log kept for all rows
NextWaitKeepsFirst(last, w_match) == IF last # NoWait THEN last
                                     ELSE IF w_match # <<>> THEN w_match ELSE last

\* `if w_match: last_wait = w_match.group(1)`
NextWait(last, w_match) == IF w_match # <<>> THEN w_match ELSE last

\* `except Exception`: the console gets its warning, `warnings` is left alone
AfterInvalidDate(warns, n) == warns

\* variant: a command row only while no row was emitted yet
EmitsCommandRowOnce(p, last, out) == ~p.none /\ last # NoWait /\ out = <<>>

\* `if parsed and last_wait is not None`
EmitsCommandRow(p, last, out) == ~p.none /\ last # NoWait

\* the locals of convert_log before the loop
NoLocals == [last_wait |-> NoWait, warnings |-> <<>>, output_lines |-> <<>>,
             console_output |-> <<>>]

\* the body of the loop of convert_log for line number n with text raw;
\* loc: the locals before, the result: the locals after
LoopBody(loc, n, raw, dt_now) ==
    LET last == NextWait(loc.last_wait, WaitSearch(raw, 1))
        sd == DateSearch(raw, 1)
        try == sd # <<>> /\ last # NoWait
        sc == strptime(sd)
        shifted == [sc.dt EXCEPT ![4] = (sc.dt[4] + 16) % 24]
        parts == <<shifted[1] % 100, shifted[2], shifted[3], shifted[4], shifted[5],
                   shifted[6]>>
        elapsed == DateLess(sc.dt, dt_now)
        out1 == IF try /\ sc.ok
                THEN Append(loc.output_lines,
                            Row(last, TimeSetId, TimeSetDescriptor, JoinHex(parts)))
                ELSE loc.output_lines
        con1 == IF try /\ ~sc.ok
                THEN loc.console_output
                     \o <<Entry("[Warning] Line", <<n>>),
                          Entry("    Invalid SC_DATE format.", <<>>)>>
                ELSE IF try /\ elapsed
                THEN loc.console_output
                     \o <<Entry("[Warning] Line", <<n>>),
                          Entry("    Commands executed on +08:00 already elapsed.", sc.dt)>>
                ELSE loc.console_output
        warn1 == IF try /\ ~sc.ok THEN AfterInvalidDate(loc.warnings, n)
                 ELSE IF try /\ elapsed THEN Append(loc.warnings, n)
                 ELSE loc.warnings
        p == parse_command_line(raw)
        out2 == IF EmitsCommandRow(p, last, out1)
                THEN Append(out1, Row(last, p.cmd_id, p.descriptor, p.params))
                ELSE out1
    IN [last_wait |-> last, warnings |-> warn1, output_lines |-> out2,
        console_output |-> con1]

\* the end of convert_log: the last console line
Finish(loc) ==
    [loc EXCEPT !.console_output =
        @ \o <<Entry("", <<>>),
               Entry("SC file converted with warning(s).", <<Len(loc.warnings)>>)>>]

\* the loop of convert_log from line k on
RECURSIVE ConvertFrom(_, _, _, _)
ConvertFrom(loc, lines, k, dt_now) ==
    IF k > Len(lines) THEN loc
    ELSE ConvertFrom(LoopBody(loc, k, lines[k], dt_now), lines, k + 1, dt_now)

\* convert_log(file_contents) at time dt_now, lines = file_contents.splitlines()
convert_log(lines, dt_now) == Finish(ConvertFrom(NoLocals, lines, 1, dt_now))

\* the locals of the conversion in progress, as one record
Locals == [last_wait |-> last_wait, warnings |-> warnings, output_lines |-> output_lines,
           console_output |-> console_output]

\* `if not raw_text.strip()`: the text box holds blanks only
IsBlankText(lines) ==
    \A i \in 1..Len(lines) : \A j \in 1..Len(lines[i]) : lines[i][j] \in Whitespace

\* the user adds a line to the log in the text box; a result shown is closed
EditText ==
    \E l \in LogLines :
        /\ sc_phase # "running"
        /\ Len(text_box) < MaxLines
        /\ text_box' = Append(text_box, l)
        /\ sc_phase' = "idle"
        /\ lineno' = 0
        /\ upload_dt' = <<>>
        /\ last_wait' = NoLocals.last_wait
        /\ warnings' = NoLocals.warnings
        /\ output_lines' = NoLocals.output_lines
        /\ console_output' = NoLocals.console_output
        /\ UNCHANGED <<authVars, submitVars, serialVars, trackerVars, parseVars, kpVars,
                       docxVars>>

\* the user empties the text box; a result shown is closed
ClearText ==
    /\ sc_phase # "running"
    /\ text_box # <<>>
    /\ text_box' = <<>>
    /\ sc_phase' = "idle"
    /\ lineno' = 0
    /\ upload_dt' = <<>>
    /\ last_wait' = NoLocals.last_wait
    /\ warnings' = NoLocals.warnings
    /\ output_lines' = NoLocals.output_lines
    /\ console_output' = NoLocals.console_output
    /\ UNCHANGED <<authVars, submitVars, serialVars, trackerVars, parseVars, kpVars,
                   docxVars>>

\* "Convert SC Commands" pressed: without text a message box and nothing
\* else; with text convert_log is entered and its locals are set up
convert_sc_commands ==
    \E dt_now \in UploadTimes :
        /\ sc_phase # "running"
        /\ ~IsBlankText(text_box)
        /\ sc_phase' = "running"
        /\ lineno' = 0
        /\ upload_dt' = dt_now
        /\ last_wait' = NoLocals.last_wait
        /\ warnings' = NoLocals.warnings
        /\ output_lines' = NoLocals.output_lines
        /\ console_output' = NoLocals.console_output
        /\ UNCHANGED <<text_box, authVars, submitVars, serialVars, trackerVars, parseVars,
                       kpVars, docxVars>>

\* one pass of the loop of convert_log
ConvertLine ==
    /\ sc_phase = "running"
    /\ lineno < Len(text_box)
    /\ \E r \in {LoopBody(Locals, lineno + 1, text_box[lineno + 1], upload_dt)} :
          /\ last_wait' = r.last_wait
          /\ warnings' = r.warnings
          /\ output_lines' = r.output_lines
          /\ console_output' = r.console_output
    /\ lineno' = lineno + 1
    /\ UNCHANGED <<text_box, sc_phase, upload_dt, authVars, submitVars, serialVars,
                   trackerVars, parseVars, kpVars, docxVars>>

\* the loop is over: the last console line, and the result window shows
\* the rows and the console output
FinishConvert ==
    /\ sc_phase = "running"
    /\ lineno = Len(text_box)
    /\ console_output' = Finish(Locals).console_output
    /\ sc_phase' = "done"
    /\ UNCHANGED <<text_box, lineno, upload_dt, last_wait, warnings, output_lines,
                   authVars, submitVars, serialVars, trackerVars, parseVars, kpVars,
                   docxVars>>

\* the window of the converter, the text box empty
InitConvert ==
    /\ text_box = <<>>
    /\ sc_phase = "idle"
    /\ lineno = 0
    /\ upload_dt = <<>>
    /\ last_wait = NoLocals.last_wait
    /\ warnings = NoLocals.warnings
    /\ output_lines = NoLocals.output_lines
    /\ console_output = NoLocals.console_output

NextConvert == EditText \/ ClearText \/ convert_sc_commands \/ ConvertLine \/ FinishConvert

----------------------------------------------------------------------------
(* geomag.py: kp_to_color and the bars of KPApp.fetch_and_plot.  NOAA gives *)
(* Kp in thirds (4.67, 5.00, 5.33): a Kp value is its number of thirds.     *)

\* the largest Kp value fetched
MaxKp == 10

\* the Kp value n, in thirds
Thirds(n) == 3 * n

\* the values float() gives: -1 (NOAA's mark of a missing value) and the
\* thirds from 0 to MaxKp
KpValues == {Thirds(-1)} \cup 0..Thirds(MaxKp)

\* the time stamps of the data fetched
TimeTags == {"t1", "t2"}

\* variant: the bands closed above
KpToColorInclusive(kp) ==
    IF kp <= Thirds(5) THEN "green"
    ELSE IF kp <= Thirds(6) THEN "yellow"
    ELSE IF kp <= Thirds(7) THEN "orange"
    ELSE IF kp <= Thirds(8) THEN "darkorange"
    ELSE IF kp <= Thirds(9) THEN "red"
    ELSE "darkred"

kp_to_color(kp) ==
    IF kp < Thirds(5) THEN "green"
    ELSE IF kp < Thirds(6) THEN "yellow"
    ELSE IF kp < Thirds(7) THEN "orange"
    ELSE IF kp < Thirds(8) THEN "darkorange"
    ELSE IF kp < Thirds(9) THEN "red"
    ELSE "darkred"

\* "Fetch & Plot": the data fetched (without data a message box and
\* nothing else), and a bar per value in the colour of kp_to_color
fetch_and_plot ==
    \E tags \in (SUBSET TimeTags) \ {{}} :
        \E data \in [tags -> KpValues] :
            /\ kps' = data
            /\ bar_colors' = [t \in DOMAIN data |-> kp_to_color(data[t])]
            /\ UNCHANGED <<authVars, submitVars, serialVars, trackerVars, parseVars,
                           convVars, docxVars>>

\* the empty plot of create_plot
InitKp ==
    /\ kps = <<>>
    /\ bar_colors = <<>>

NextKp == fetch_and_plot

----------------------------------------------------------------------------
(* IR_gen.py: generate_docx, the paragraphs of the document.  doc.paragraphs *)
(* is a sequence of paragraphs; a paragraph of the template carries its     *)
(* place in the template as id, an inserted one has id 0.  The tables of    *)
(* the template are no paragraphs.  The template file is not part of the    *)
(* sources: it is taken to be what generate_docx expects, each heading      *)
(* followed by one body paragraph.                                          *)

\* how many photos are uploaded to a section
MaxFigures == 1

HeadingNature == "Nature of Incident"
HeadingSequence == "Sequence of Events"
HeadingDamages == "Damages Incurred (if any)"
HeadingInvestigation == "Investigation and Analysis"
HeadingConclusion == "Conclusion and Recommendations"

\* the sections with a text area, and those with a file uploader
TextSections == {"nature", "damages", "investigation", "conclusion"}
FigureSections == {"sequence", "damages", "investigation", "conclusion"}

\* the heading generate_docx looks up for a section
HeadingOf ==
    [s \in TextSections \cup FigureSections |->
        CASE s = "nature" -> HeadingNature
          [] s = "sequence" -> HeadingSequence
          [] s = "damages" -> HeadingDamages
          [] s = "investigation" -> HeadingInvestigation
          [] s = "conclusion" -> HeadingConclusion]

\* what is typed into a text area: nothing, a sentence, a heading of the
\* template, a heading with blanks around it
SectionTexts ==
    {"", "The antenna stalled.", "Damages Incurred (if any)",
     " Conclusion and Recommendations "}

\* str.strip() of the texts of the document
StripText(t) ==
    IF t = " Conclusion and Recommendations " THEN "Conclusion and Recommendations" ELSE t

Paragraph(id, text, kind, section, fig_no) ==
    [id |-> id, text |-> text, kind |-> kind, section |-> section, fig_no |-> fig_no]

\* Document(TEMPLATE_PATH).paragraphs
Template ==
    LET texts == <<HeadingNature, "", HeadingSequence, "", HeadingDamages, "",
                   HeadingInvestigation, "", HeadingConclusion, "">>
    IN [i \in 1..Len(texts) |-> Paragraph(i, texts[i], "template", "", 0)]

\* `for i, p in enumerate(doc.paragraphs): if p.text.strip() == heading_text.strip()`:
\* the index of the first such paragraph, 0 without one
FindHeading(doc, heading_text) ==
    LET found == {i \in 1..Len(doc) : StripText(doc[i].text) = StripText(heading_text)}
    IN IF found = {} THEN 0 ELSE CHOOSE i \in found : \A j \in found : i <= j

\* _set_paragraph_after_heading
set_paragraph_after_heading(doc, heading_text, new_text) ==
    LET i == FindHeading(doc, heading_text) IN
    IF i = 0 \/ i + 1 > Len(doc) THEN doc
    ELSE [doc EXCEPT ![i + 1].text = new_text]

\* the picture and caption paragraphs of files number idx.. of a section
RECURSIVE FigureParagraphs(_, _, _, _)
FigureParagraphs(section, files, idx, fig_no) ==
    IF idx > files THEN <<>>
    ELSE <<Paragraph(0, "", "picture", section, fig_no),
           Paragraph(0, "Figure", "caption", section, fig_no)>>
         \o FigureParagraphs(section, files, idx + 1, fig_no + 1)

\* _append_figures_after_heading: the document and the next figure number
append_figures_after_heading(doc, heading_text, files, figure_start, section) ==
    LET i == FindHeading(doc, heading_text)
        anchor == IF i + 1 <= Len(doc) THEN i + 1 ELSE i
    IN
    IF files = 0 \/ i = 0 THEN [doc |-> doc, fig |-> figure_start]
    ELSE [doc |-> SubSeq(doc, 1, anchor)
                  \o FigureParagraphs(section, files, 1, figure_start)
                  \o SubSeq(doc, anchor + 1, Len(doc)),
          fig |-> figure_start + files]

\* generate_docx(data), the paragraphs of the document saved
GenerateParagraphs(data) ==
    LET d1 == set_paragraph_after_heading(Template, HeadingNature, data.nature)
        d2 == set_paragraph_after_heading(d1, HeadingDamages, data.damages)
        d3 == set_paragraph_after_heading(d2, HeadingInvestigation, data.investigation)
        d4 == set_paragraph_after_heading(d3, HeadingConclusion, data.conclusion)
        f1 == append_figures_after_heading(d4, HeadingSequence,
                                           data.sequence_images, 1, "sequence")
        f2 == append_figures_after_heading(f1.doc, HeadingDamages,
                                           data.damages_images, f1.fig, "damages")
        f3 == append_figures_after_heading(f2.doc, HeadingInvestigation,
                                           data.investigation_images, f2.fig,
                                           "investigation")
        f4 == append_figures_after_heading(f3.doc, HeadingConclusion,
                                           data.conclusion_images, f3.fig, "conclusion")
    IN f4.doc

\* no document generated in this script run
NoDocument == <<>>

\* the form as it is first shown: the text areas empty, "None" apart
EmptyForm ==
    [nature |-> "", damages |-> "", investigation |-> "", conclusion |-> "",
     sequence_images |-> 0, damages_images |-> 0, investigation_images |-> 0,
     conclusion_images |-> 0]

\* the user types into the text area of a section
EnterText ==
    \E s \in TextSections, t \in SectionTexts :
        /\ form[s] # t
        /\ form' = [form EXCEPT ![s] = t]
        /\ docx_paragraphs' = NoDocument
        /\ UNCHANGED <<authVars, submitVars, serialVars, trackerVars, parseVars,
                       convVars, kpVars>>

\* the user uploads a photo to a section
UploadPhoto ==
    \E s \in {"sequence_images", "damages_images", "investigation_images",
              "conclusion_images"} :
        /\ form[s] < MaxFigures
        /\ form' = [form EXCEPT ![s] = @ + 1]
        /\ docx_paragraphs' = NoDocument
        /\ UNCHANGED <<authVars, submitVars, serialVars, trackerVars, parseVars,
                       convVars, kpVars>>

\* "Generate Report": docx_bytes = generate_docx(data)
GenerateDocx ==
    /\ docx_paragraphs' = GenerateParagraphs(form)
    /\ UNCHANGED <<form, authVars, submitVars, serialVars, trackerVars, parseVars,
                   convVars, kpVars>>

InitDocx ==
    /\ form = EmptyForm
    /\ docx_paragraphs = NoDocument

NextDocx == EnterText \/ UploadPhoto \/ GenerateDocx

----------------------------------------------------------------------------
(* The specifications: each component runs from the same initial state *)

Init ==
    /\ InitAuth /\ InitSubmit /\ InitSerial /\ InitTracker
    /\ InitParse /\ InitConvert /\ InitKp /\ InitDocx

\* the portal: sign-in, script runs of the pages, the clock
Spec == Init /\ [][NextAuth]_vars

\* the serial input of the Incident Report Generator
SpecSerial == Init /\ [][NextSerial]_vars

\* Generate Report submissions
SpecSubmit == Init /\ [][NextSubmit]_vars

\* the satellite tracker window
SpecTracker == Init /\ [][NextTracker]_vars

\* the line of the SC converter's text box, parsed
SpecParse == Init /\ [][NextParse]_vars

\* conversions of the log in the SC converter's text box
SpecConvert == Init /\ [][NextConvert]_vars

\* the plots of the geomagnetic storm monitor
SpecKp == Init /\ [][NextKp]_vars

\* the section texts and photos of the incident report form, and the document
SpecDocx == Init /\ [][NextDocx]_vars

----------------------------------------------------------------------------
(* Claims about the login glue and the page gates, checked under Spec *)

IsRun == run.kind = "run"
LastOutcome == IF run.outcomes = <<>> THEN "" ELSE run.outcomes[Len(run.outcomes)]

\* C1 (as claimed): a page body is rendered only in a run in which
\* get_access_token returned a token.
C1_BodyOnlyAfterSignIn ==
    (IsRun /\ "body" \in run.shown) => (run.gat.called /\ run.gat.ret # "")

\* C2 (as claimed): no operation writes state outside the session variables
\* of the session that triggered it, so state shared by the sessions never changes.
C2_NoSharedMutableState == [][flow_store' = flow_store]_vars

\* C2 (amended): the session variables (session_state, query parameters) of a
\* session are changed only by a step that session triggered; the flow store is
\* the state the sessions share.
C2_SessionVariablesPrivate ==
    [][\A s \in Sessions :
          (session_state'[s] # session_state[s] \/ query_params'[s] # query_params[s])
              => run'.session = s]_vars

\* C2 witness: a session redeemed its code through a flow while the other
\* session holds a token of its own.
C2_Witness ==
    \E s \in Sessions, t \in Sessions :
        /\ s # t /\ IsRun /\ run.session = s /\ run.flowFound /\ LastOutcome = "token"
        /\ session_state[s].ms_token # NoToken
        /\ session_state[t].ms_token # NoToken

\* C5: get_access_token returns None when the session holds no token; it never
\* returns a token whose expires_at is less than 120 s after the current time:
\* then ms_token and ms_scopes are gone, the query parameters are cleared and
\* the run ends in a rerun.
C5_GetAccessToken ==
    (IsRun /\ run.gat.called) =>
        /\ ~run.gat.had => (run.gat.ret = "" /\ ~run.gat.relogin)
        /\ run.gat.ret # "" => run.gat.expires_at - run.at >= 120
        /\ (run.gat.had /\ run.gat.expires_at - run.at < 120) =>
              /\ run.gat.ret = ""
              /\ session_state[run.session] = EmptySession
              /\ query_params[run.session] = NoParams
              /\ run.ended = "rerun"

\* C5 witness: a run in which get_access_token found a token about to expire.
C5_Witness ==
    IsRun /\ run.gat.called /\ run.gat.had /\ run.gat.expires_at - run.at < 120

\* C6: in a callback run with no cached flow for the state, or whose flow
\* redemption raised ValueError, the code is redeemed directly with the
\* session's scopes and the configured redirect URI; and whenever the result of
\* a callback run contains access_token it is stored as ms_token, the query
\* parameters are cleared and the script reruns.
C6_FallbackRedeemsDirectly ==
    (IsRun /\ run.callback) =>
        /\ (~run.flowFound \/ run.outcomes[1] = "ValueError") =>
              \E i \in 1..Len(run.calls) :
                  /\ run.calls[i].api = "acquire_token_by_authorization_code"
                  /\ run.calls[i].scopes = run.scopes
                  /\ run.calls[i].redirect_uri = RedirectUri
        /\ LastOutcome = "token" =>
              /\ session_state[run.session].ms_token.access_token # ""
              /\ query_params[run.session] = NoParams
              /\ run.ended = "rerun"

\* C6 witness: a callback run without a cached flow that logged the session in.
C6_Witness ==
    IsRun /\ run.callback /\ ~run.flowFound /\ LastOutcome = "token"
    /\ session_state[run.session].ms_token # NoToken

\* C7 (as claimed): within one run, a failed redemption attempt is never
\* followed by a second attempt.
C7_NoSecondAttempt ==
    IsRun => \A i \in 1..Len(run.outcomes) :
                run.outcomes[i] # "token" => i = Len(run.outcomes)

\* C7 (amended): a run makes at most two redemption attempts; a second one is
\* the direct redemption, made only after the flow redemption raised ValueError
\* or returned an empty result; a failed direct redemption, and a flow
\* redemption that returned an error or raised another exception, end the attempts.
C7_OnlyTheFallbackFollows ==
    IsRun =>
        /\ Len(run.calls) <= 2
        /\ Len(run.calls) = 2 =>
              /\ run.calls[1].api = "acquire_token_by_auth_code_flow"
              /\ run.outcomes[1] \in {"ValueError", "empty"}
              /\ run.calls[2].api = "acquire_token_by_authorization_code"
        /\ \A i \in 1..Len(run.calls) :
              (run.calls[i].api = "acquire_token_by_authorization_code"
               \/ run.outcomes[i] \in {"token", "error", "Exception"})
                  => i = Len(run.calls)

\* C7 witness: a run whose flow redemption failed and whose direct redemption
\* failed too.
C7_Witness ==
    IsRun /\ Len(run.calls) = 2 /\ run.outcomes[2] # "token"

----------------------------------------------------------------------------
(* Claims about the Generate Report submission, checked under SpecSubmit *)

IsSubmit == sub.kind = "submit"
Shown(m) == \E i \in 1..Len(sub.messages) : sub.messages[i] = m
Raised(op) == \E i \in 1..Len(sub.steps) : sub.steps[i].op = op /\ ~sub.steps[i].ok
Did(op) == \E i \in 1..Len(sub.steps) : sub.steps[i].op = op
IncidentFolder == <<sub.year, sub.city, sub.full_incident_no>>
IncidentDocx == Append(IncidentFolder, <<sub.full_incident_no, ".docx">>)

\* C3 (as claimed): when the duplicate check, the folder creation or the upload
\* raises, an error message is shown and no later step of the submission runs.
C3_StopsOnAnyFailure ==
    IsSubmit =>
        \A i \in 1..Len(sub.steps) :
            (~sub.steps[i].ok /\ sub.steps[i].op # "generate_docx") =>
                /\ i = Len(sub.steps)
                /\ Shown(MsgDuplicate) \/ Shown(MsgUploadFailed) \/ Shown(MsgSerial)

\* C3 (amended): when the duplicate check raises, a warning is shown and the
\* submission goes on with the document generation; when the folder creation
\* raises, "Upload failed" is shown and no upload is made; when the upload
\* raises, "Upload failed" is shown; in both cases no success message is shown
\* and the download of the generated document is still offered, as the last step.
C3_WarnsAndContinues ==
    IsSubmit =>
        /\ Raised("check_duplicate_ir") =>
              /\ Shown(MsgCheckFailed)
              /\ Len(sub.steps) >= 2
              /\ sub.steps[2].op = "generate_docx"
        /\ Raised("ensure_path") => ~Did("upload_file_to_folder")
        /\ (Raised("ensure_path") \/ Raised("upload_file_to_folder")) =>
              /\ Shown(MsgUploadFailed)
              /\ ~Shown(MsgSuccess)
              /\ sub.steps[Len(sub.steps)] = Step("download_button", TRUE)

\* C3 witness: a submission whose duplicate check raised and whose upload raised.
C3_Witness ==
    IsSubmit /\ Raised("check_duplicate_ir") /\ Raised("upload_file_to_folder")

\* C4 (as claimed): a submission whose Incident No. already exists as a folder
\* under <root>/<year>/<city> is rejected: it creates no folder and uploads
\* nothing, so it leaves the drive as it was.
C4_DuplicateNeverOverwritten ==
    [][(/\ sub'.kind = "submit"
        /\ sub'.full_incident_no # <<>>
        /\ <<sub'.year, sub'.city, sub'.full_incident_no>> \in drive.folders)
       => drive' = drive]_vars

\* C9: the steps of a submission run in the fixed order duplicate check,
\* document generation, folder creation, upload, download offer; the success
\* message is shown only when the folder <year>/<city>/<IncidentNo> exists and
\* holds the generated document as <IncidentNo>.docx; with an empty or invalid
\* serial only the serial error is shown and no step runs.
C9_OrderAndSuccess ==
    LET Order == [op \in {"check_duplicate_ir", "generate_docx", "ensure_path",
                          "upload_file_to_folder", "download_button"} |->
                    CASE op = "check_duplicate_ir" -> 1
                      [] op = "generate_docx" -> 2
                      [] op = "ensure_path" -> 3
                      [] op = "upload_file_to_folder" -> 4
                      [] op = "download_button" -> 5]
    IN
    IsSubmit =>
        /\ \A i \in 1..Len(sub.steps) : \A j \in 1..Len(sub.steps) :
              i < j => Order[sub.steps[i].op] < Order[sub.steps[j].op]
        /\ Shown(MsgSuccess) =>
              /\ IncidentFolder \in drive.folders
              /\ IncidentDocx \in DOMAIN drive.files
              /\ drive.files[IncidentDocx]
                    = [full_incident_no |-> sub.full_incident_no,
                       reported_by |-> sub.reported_by]
              /\ Did("ensure_path") /\ Did("upload_file_to_folder")
              /\ ~Raised("ensure_path") /\ ~Raised("upload_file_to_folder")
        /\ sub.serial_raw \in {<<>>, <<"1", "x">>} =>
              /\ sub.steps = <<>>
              /\ sub.messages = <<MsgSerial>>
              /\ sub.ended = "stop"

\* C9 witness: a submission that showed the success message.
C9_Witness == IsSubmit /\ Shown(MsgSuccess) /\ IncidentDocx \in DOMAIN drive.files

----------------------------------------------------------------------------
(* Claims about normalize_serial, checked under SpecSerial *)

\* C10: normalize_serial returns the trimmed input left-padded with zeros to
\* four digits when the trimmed input is 1 to 4 decimal digits, and the empty
\* string for every other input; applied to a non-empty output of its own it
\* returns that output.
C10_NormalizeSerial ==
    LET nonblank == {k \in 1..Len(serial_raw) : serial_raw[k] # " "} IN
    /\ IF nonblank = {}
       THEN serial = <<>>
       ELSE LET a == CHOOSE k \in nonblank : \A m \in nonblank : k <= m
                b == CHOOSE k \in nonblank : \A m \in nonblank : k >= m
                n == b - a + 1
            IN IF n <= 4 /\ \A k \in a..b : serial_raw[k] \in {"0", "7"}
               THEN /\ Len(serial) = 4
                    /\ \A k \in 1..(4 - n) : serial[k] = "0"
                    /\ \A k \in 1..n : serial[4 - n + k] = serial_raw[a + k - 1]
               ELSE serial = <<>>
    /\ serial # <<>> => normalize_serial(serial) = serial

\* C10 witness: an input with blanks around fewer than four digits, padded.
C10_Witness ==
    /\ serial_raw = <<" ", "7", " ">>
    /\ serial = <<"0", "0", "0", "7">>

----------------------------------------------------------------------------
(* Claims about the satellite tracker, checked under SpecTracker *)

\* C8 (as claimed): no handler is ever initiated by a timer or another
\* background task.
C8_NothingInitiatedByTimer == event.initiator # "timer"

\* C8 (amended): the handlers not initiated by a user click are
\* on_web_load_finished (the web view's loadFinished signal) and live_tick
\* (live_timer's timeout); the timer is started only by on_web_load_finished
\* after a successful load with "Live update" checked, it runs only after a
\* render, and a live_tick updates the map only when the page is loaded and
\* satellites are selected.
C8_TimerOnlyDrivesLiveTick ==
    /\ event.initiator = "timer" <=> event.op = "live_tick"
    /\ event.initiator = "webengine" <=> event.op = "on_web_load_finished"
    /\ event.started =>
          (event.op = "on_web_load_finished" /\ web_loaded /\ live_cb /\ live_timer)
    /\ (event.op = "live_tick" /\ event.js > 0) =>
          (web_loaded /\ selected_norads # {})
    /\ live_timer => selected_norads # {}

\* C8 witness: a timer tick that moved the satellites on the map.
C8_Witness == event.op = "live_tick" /\ event.initiator = "timer" /\ event.js > 0

----------------------------------------------------------------------------
(* Claims about parse_command_line, checked under SpecParse *)

\* C11: parse_command_line returns None if the line does not start with a
\* valid 0x?? command (optional leading whitespace, '0x' or '0X', two hex
\* digits, whitespace, then a code of 2 to 4 hex digits); for a line it
\* accepts it returns the triple (cmd_id, descriptor, params) with cmd_id
\* being those two hex digits in upper case.
C11_ParseCommandLine ==
    LET line == cmd_line
        n == Len(line)
        \* a: how many blanks lead a line that starts with a valid command
        StartsAt(a) ==
            /\ a + 4 <= n
            /\ \A i \in 1..a : line[i] \in {" ", "\t"}
            /\ line[a + 1] = "0"
            /\ line[a + 2] \in {"x", "X"}
            /\ line[a + 3] \in HexDigits
            /\ line[a + 4] \in HexDigits
            /\ \E w \in 1..(n - a - 4) :
                  /\ \A i \in 1..w : line[a + 4 + i] \in {" ", "\t"}
                  /\ \E k \in 2..4 :
                        /\ a + 4 + w + k <= n
                        /\ \A i \in 1..k : line[a + 4 + w + i] \in HexDigits
        UpperOf(c, u) ==
            \/ c = u /\ u \in Digits \cup {"A", "B", "C", "D", "E", "F"}
            \/ <<c, u>> \in {<<"a", "A">>, <<"b", "B">>, <<"c", "C">>,
                             <<"d", "D">>, <<"e", "E">>, <<"f", "F">>}
    IN
    /\ (\A a \in 0..n : ~StartsAt(a)) => parsed.none
    /\ ~parsed.none =>
          /\ parsed.descriptor # <<>>
          /\ \E a \in 0..n :
                /\ StartsAt(a)
                /\ Len(parsed.cmd_id) = 2
                /\ UpperOf(line[a + 3], parsed.cmd_id[1])
                /\ UpperOf(line[a + 4], parsed.cmd_id[2])

\* C11 witness: an accepted line, blanks before the marker, whose command id
\* was written in lower case.
C11_Witness ==
    /\ cmd_line = <<" ", "0", "X", "3", "e", " ", "3", "e", "#", "C", "M">>
    /\ ~parsed.none
    /\ parsed.cmd_id = <<"3", "E">>

----------------------------------------------------------------------------
(* Claims about convert_log, checked under SpecConvert *)

\* the step is a pass of the loop of convert_log, which takes line lineno'
IsConvertLine == sc_phase = "running" /\ lineno' = lineno + 1

\* the rows the pass appended to output_lines
NewRows == SubSeq(output_lines', Len(output_lines) + 1, Len(output_lines'))

SetMax(S) == CHOOSE x \in S : \A y \in S : y <= x
SetMin(S) == CHOOSE x \in S : \A y \in S : x <= y

\* where in a line a wait marker occurs: #SC_WAIT_A= and a digit after it
WaitsAt(raw) ==
    {k \in 1..Len(raw) :
        /\ raw[k] = "#"
        /\ k + Len(WaitPrefix) <= Len(raw)
        /\ \A i \in 1..Len(WaitPrefix) : raw[k + i - 1] = WaitPrefix[i]
        /\ raw[k + Len(WaitPrefix)] \in Digits}

\* the argument of the marker at k: the digits after it
ArgumentAt(raw, k) ==
    LET g == k + Len(WaitPrefix)
        e == SetMax({j \in g..Len(raw) : \A i \in g..j : raw[i] \in Digits})
    IN SubSeq(raw, g, e)

\* the lines up to line n that carry a wait marker
LinesWithWait(n) == {i \in 1..n : WaitsAt(text_box[i]) # {}}

\* the four tab-separated fields of a row whose first is the wait value w:
\* wait value, command id (two upper-case hex digits), descriptor, params
HasFourFields(r, w) ==
    LET tabs == {i \in 1..Len(r) : r[i] = "\t"} IN
    /\ Cardinality(tabs) = 3
    /\ LET t1 == SetMin(tabs)
           t3 == SetMax(tabs)
           t2 == CHOOSE t \in tabs : t1 < t /\ t < t3
       IN /\ SubSeq(r, 1, t1 - 1) = w
          /\ t2 - t1 - 1 = 2
          /\ \A i \in (t1 + 1)..(t2 - 1) :
                r[i] \in Digits \cup {"A", "B", "C", "D", "E", "F"}
          /\ t3 - t2 - 1 > 0

\* C13 as stated: every row convert_log emits has exactly four tab-separated
\* fields (wait value, command id, descriptor, params), the wait value being
\* the argument of the most recent #SC_WAIT_A occurring at or before that
\* row's input line (the last one in the text up to the end of that line);
\* rows are emitted in input line order, and no row is emitted for a line
\* preceding the first #SC_WAIT_A.
C13_WaitOfMostRecentMarker ==
    [][IsConvertLine =>
          /\ SubSeq(output_lines', 1, Len(output_lines)) = output_lines
          /\ \A marked \in {LinesWithWait(lineno')} :
                IF marked = {} THEN NewRows = <<>>
                ELSE \A w \in {LET raw == text_box[SetMax(marked)]
                               IN ArgumentAt(raw, SetMax(WaitsAt(raw)))} :
                        \A j \in 1..Len(NewRows) : HasFourFields(NewRows[j], w)]_vars

\* C13 amended: as above, the wait value being the argument of the first
\* #SC_WAIT_A=<digits> marker of the most recent line, at or before the row's
\* input line, that carries such a marker.
C13_WaitOfFirstMarkerOfLine ==
    [][IsConvertLine =>
          /\ SubSeq(output_lines', 1, Len(output_lines)) = output_lines
          /\ \A marked \in {LinesWithWait(lineno')} :
                IF marked = {} THEN NewRows = <<>>
                ELSE \A w \in {LET raw == text_box[SetMax(marked)]
                               IN ArgumentAt(raw, SetMin(WaitsAt(raw)))} :
                        \A j \in 1..Len(NewRows) : HasFourFields(NewRows[j], w)]_vars

\* C13 witness: a line with two wait markers, then a line that emits two
\* rows, both with the argument of the first marker.
C13_Witness ==
    /\ text_box = <<LineNote, LineTwoWaits, LineDateFuture>>
    /\ lineno = 3
    /\ Len(output_lines) = 2
    /\ \A j \in 1..2 : SubSeq(output_lines[j], 1, 2) = <<"5", "\t">>

\* the '[Warning]' entries of the console output
WarningEntries == {i \in 1..Len(console_output) : console_output[i].text = "[Warning] Line"}

\* C14 as stated: the number N reported in the final console line 'SC file
\* converted with N warning(s).' equals the number of '[Warning]' entries
\* written to the console output during that conversion.
C14_ReportedCountIsWarningCount ==
    sc_phase = "done" =>
        LET final == console_output[Len(console_output)] IN
        /\ final.text = "SC file converted with warning(s)."
        /\ final.arg = <<Cardinality(WarningEntries)>>

----------------------------------------------------------------------------
(* Claims about kp_to_color, checked under SpecKp *)

\* the colours in the order of their bands
BandColors == <<"green", "yellow", "orange", "darkorange", "red", "darkred">>

BandIndex(c) == CHOOSE i \in 1..Len(BandColors) : BandColors[i] = c

----------------------------------------------------------------------------
(* Claims about generate_docx, checked under SpecDocx *)

\* the place in the template of the heading of a section
HeadingId(s) == CHOOSE i \in 1..Len(Template) : Template[i].text = HeadingOf[s]

\* where the paragraph with place id of the template is in the document, 0
\* when it is gone
PlaceOf(id) ==
    LET at == {i \in 1..Len(docx_paragraphs) : docx_paragraphs[i].id = id}
    IN IF at = {} THEN 0 ELSE CHOOSE i \in at : TRUE

\* the photo count of a section with a file uploader
PhotosOf(s) ==
    CASE s = "sequence" -> form.sequence_images
      [] s = "damages" -> form.damages_images
      [] s = "investigation" -> form.investigation_images
      [] s = "conclusion" -> form.conclusion_images

\* C16: generate_docx changes only the body paragraph that follows each of
\* the four section headings: for any section texts (including a text equal
\* to a heading string) every paragraph of the template other than these
\* bodies, so every heading, keeps its text, each section's text is in the
\* paragraph after that section's own heading, and each section's figures
\* follow that paragraph.
C16_OnlyBodiesAfterOwnHeadings ==
    docx_paragraphs # NoDocument =>
        LET bodies == {HeadingId(s) + 1 : s \in TextSections} IN
        /\ \A id \in 1..Len(Template) :
              /\ PlaceOf(id) # 0
              /\ id \notin bodies => docx_paragraphs[PlaceOf(id)].text = Template[id].text
        /\ \A s \in TextSections :
              docx_paragraphs[PlaceOf(HeadingId(s) + 1)].text = form[s]
        /\ \A s \in FigureSections :
              LET body == PlaceOf(HeadingId(s) + 1) IN
              /\ Cardinality({i \in 1..Len(docx_paragraphs) :
                                 docx_paragraphs[i].kind = "picture"
                                 /\ docx_paragraphs[i].section = s}) = PhotosOf(s)
              /\ \A k \in 1..PhotosOf(s) :
                    /\ body + 2 * k <= Len(docx_paragraphs)
                    /\ docx_paragraphs[body + 2 * k - 1].kind = "picture"
                    /\ docx_paragraphs[body + 2 * k - 1].section = s
                    /\ docx_paragraphs[body + 2 * k].kind = "caption"
                    /\ docx_paragraphs[body + 2 * k].section = s

====
